---- MODULE Spec2Model ----
(***************************************************************************)
(* The private star-registry blockchain of src/src/block.js and            *)
(* src/src/blockchain.js.                                                  *)
(*                                                                         *)
(* Block objects live in a store (`blocks`); the chain array holds         *)
(* references (indices) into it, as the JavaScript array holds object      *)
(* references.  Every method of Blockchain is an `async` function: the     *)
(* part up to its first `await` runs synchronously inside the call, the    *)
(* rest runs later as a microtask.  `queue` is the FIFO microtask queue:   *)
(* the continuation of _addBlock after `await self.validateChain()`, the   *)
(* continuations of the forEach callbacks of getStarsByWalletAddress after *)
(* `await block.getBData()`, and the delivery of a call's promise to the   *)
(* caller that awaits it.                                                  *)
(***************************************************************************)
EXTENDS Integers, Sequences, FiniteSets, TLC

(* ------------------------------ bounds -------------------------------- *)
\* Block objects ever constructed (the genesis block included).
MaxBlocks == 3
\* Calls whose promise has not been delivered yet.
MaxCalls == 1
\* How often a block's hash may have been (re)computed.
MaxHashDepth == 2

(* ------------------------------ inputs -------------------------------- *)
Addresses == {"addr1", "addr2"}
Stars == {"star1"}

\* blockchain.js:120
fiveMinutesInSeconds == 5 * 60

\* The wall clock (seconds since the epoch) when the Blockchain is constructed.
StartTime == 2 * fiveMinutesInSeconds
\* Timestamps a submitted message may carry: exactly five minutes old at
\* StartTime, one second younger, and fresh.
MessageTimes == {StartTime - fiveMinutesInSeconds, StartTime - fiveMinutesInSeconds + 1, StartTime}
\* The readings of the clock: the second of construction and the next one.
Clocks == {StartTime, StartTime + 1}

VARIABLES
    blocks,     \* the Block objects constructed so far, by reference (1..Len)
    chain,      \* Blockchain.chain: references into blocks
    height,     \* Blockchain.height
    queue,      \* the microtask queue
    now,        \* the wall clock, in seconds
    tampered    \* references of stored blocks whose body was changed from outside

vars == <<blocks, chain, height, queue, now, tampered>>

(* ------------------------- values and codecs -------------------------- *)
\* JavaScript null, for a hash or a block reference.
Null == <<>>
NullRef == 0
Undefined == "undefined"

\* Buffer.from(JSON.stringify(data)).toString("hex")
Encode(data) == <<"hex", data>>
\* JSON.parse(hex2ascii(body))
Decode(body) == body[2]

GenesisData == [data |-> "Genesis Block"]
StarData(address, star) == [owner |-> address, star |-> star]
\* The string getBData returns for the genesis block.
GenesisSentinel == [string |-> "** Genesis Block **"]

\* data.owner of a JavaScript value
OwnerField(data) == IF "owner" \in DOMAIN data THEN data.owner ELSE Undefined

\* new Block(data)
Block(data) ==
    [hash |-> Null, height |-> 0, body |-> Encode(data), time |-> 0,
     previousBlockHash |-> Null]

\* SHA256(JSON.stringify(block)).toString(): a collision-free digest of the
\* block's five fields, in the order JSON.stringify writes them.
SHA256(block) ==
    <<"sha256", block.hash, block.height, block.body, block.time,
      block.previousBlockHash>>

RECURSIVE HashDepth(_)
HashDepth(h) == IF h = Null THEN 0 ELSE 1 + HashDepth(h[2])

\* Date.now(), in milliseconds
DateNow(t) == t * 1000

\* `${address}:${seconds}:starRegistry`
Message(address, t) == <<address, t, "starRegistry">>
\* parseInt(message.split(":")[1])
PassedTime(message) == message[2]

\* A signature made with the key of `signer` over `message`.
Sign(signer, message) == <<"sig", signer, message>>
\* bitcoinMessage.verify(message, address, signature)
Verify(message, address, signature) == signature = Sign(address, message)

(* ------------------------------- Block -------------------------------- *)
\* Block.validate(): overwrites the stored hash with the fresh digest; the
\* promise it returns resolves with the comparison.
validate(block) ==
    LET currentBlockHash == block.hash
        newBlockHash == SHA256(block)
    IN  [self |-> [block EXCEPT !.hash = newBlockHash],
         resolves |-> (currentBlockHash = newBlockHash)]

\* Block.getBData()
getBData(block) ==
    LET decodedData == Decode(block.body)
    IN  IF block.height = 0 THEN GenesisSentinel ELSE decodedData

(* ---------------------------- validateChain --------------------------- *)
\* `!block.validate()`: validate() is async, so the operand is a Promise
\* object, which is truthy whatever it resolves with.
NotOfPromise(promise) == FALSE

HashMismatchError(index, block, previousBlock) ==
    [index |-> index, kind |-> "Hash Mismatch",
     previousBlockHash |-> block.previousBlockHash,
     required |-> previousBlock.hash]

BlockInvalidError(index, block) ==
    [index |-> index, kind |-> "Invalid", hash |-> block.hash]

\* The linkage test of validateChain.
LinkBroken(block, previousBlock) == block.previousBlockHash # previousBlock.hash

\* The forEach of validateChain from position i (1-based; the error entries
\* carry the 0-based array index).
RECURSIVE ValidateFrom(_, _, _, _)
ValidateFrom(bs, ch, i, errorLog) ==
    IF i > Len(ch) THEN [blocks |-> bs, errorLog |-> errorLog, threw |-> FALSE]
    ELSE LET block == bs[ch[i]] IN
         IF block.height > 0
         THEN IF i = 1
              \* self.chain[-1] is undefined: reading its hash throws, and the
              \* catch turns that into "Could not validate chain."
              THEN [blocks |-> bs, errorLog |-> <<>>, threw |-> TRUE]
              ELSE LET previousBlock == bs[ch[i - 1]]
                       log1 == IF LinkBroken(block, previousBlock)
                               THEN Append(errorLog, HashMismatchError(i - 1, block, previousBlock))
                               ELSE errorLog
                       promise == validate(block)
                       log2 == IF NotOfPromise(promise)
                               THEN Append(log1, BlockInvalidError(i - 1, promise.self))
                               ELSE log1
                   IN  ValidateFrom([bs EXCEPT ![ch[i]] = promise.self], ch, i + 1, log2)
         ELSE ValidateFrom(bs, ch, i + 1, errorLog)

\* Blockchain.validateChain() over the store bs and the chain ch.
validateChain(bs, ch) == ValidateFrom(bs, ch, 1, <<>>)

CouldNotValidate == "Could not validate chain."
SubmissionFailed == "There was an issue submitting your star."

(* ------------------------------ _addBlock ----------------------------- *)
\* The height is left as the constructor set it.
BlockHeightFor_Unset(ch) == 0
\* block.height = self.chain.length
BlockHeightFor(ch) == Len(ch)

\* _addBlock up to its await: height, time and hash are assigned to the block
\* bs[ref], then validateChain runs over the chain as it stands.
addBlockBegin(bs, ch, ref, t) ==
    LET b1 == [bs[ref] EXCEPT !.height = BlockHeightFor(ch), !.time = DateNow(t)]
        b2 == [b1 EXCEPT !.hash = SHA256(b1)]
        vc == validateChain([bs EXCEPT ![ref] = b2], ch)
    IN  [blocks |-> vc.blocks, errors |-> vc.errorLog, threw |-> vc.threw]

\* The error log is not looked at.
NoErrors_Ignored(errors) == TRUE
\* `errors.length === 0`
NoErrors(errors) == Len(errors) = 0

\* The counter is not updated.
HeightAfterPush_Forgotten(h) == h
\* `self.height++`
HeightAfterPush(h) == h + 1

(* ------------------------------- tasks -------------------------------- *)
AddBlockTask(ref, errors) == [kind |-> "addBlock", block |-> ref, errors |-> errors]
GetBDataTask(data, address) == [kind |-> "getBData", data |-> data, address |-> address]
\* The caller's continuation: the call's promise settles with `value`; `arg`
\* is what the caller passed.
DeliverTask(op, status, value, arg) ==
    [kind |-> "deliver", op |-> op, status |-> status, value |-> value, arg |-> arg]
\* The same for submitStar; lenAtCall and heightAtCall record what the chain
\* was when the call was made.
StarDeliverTask(status, value, arg) ==
    [kind |-> "deliver", op |-> "submitStar", status |-> status, value |-> value,
     arg |-> arg, lenAtCall |-> Len(chain), heightAtCall |-> height]

\* The tasks _addBlock leaves behind: its continuation, unless it threw.
AddBlockTasks(ref, r) == IF r.threw THEN <<>> ELSE <<AddBlockTask(ref, r.errors)>>

InFlight == Cardinality({i \in 1..Len(queue) : queue[i].kind = "deliver"})
CallRoom == InFlight < MaxCalls
BlockRoom == Len(blocks) < MaxBlocks
\* validateChain recomputes the hash of every chained block of height > 0.
RehashRoom ==
    \A i \in 1..Len(chain) :
        blocks[chain[i]].height > 0 => HashDepth(blocks[chain[i]].hash) < MaxHashDepth

(* ------------------------------- Init --------------------------------- *)
\* The state when `new Blockchain()` returns: initializeChain has built the
\* genesis block and _addBlock is suspended at its await.
Init ==
    LET r == addBlockBegin(<<Block(GenesisData)>>, <<>>, 1, StartTime)
    IN  /\ blocks = r.blocks
        /\ chain = <<>>
        /\ height = -1
        /\ queue = AddBlockTasks(1, r)
        /\ now = StartTime
        /\ tampered = {}

(* ------------------------------- calls -------------------------------- *)
\* The window taken to include its end.
WithinWindow_Inclusive(currentTime, passedTime) ==
    currentTime - passedTime <= fiveMinutesInSeconds
\* `currentTime - passedTime < fiveMinutesInSeconds`
WithinWindow(currentTime, passedTime) == currentTime - passedTime < fiveMinutesInSeconds

\* The signature is not verified.
Accepts_Unverified(address, message, signature) ==
    WithinWindow(now, PassedTime(message))
\* Whether submitStar goes on to build and add the block.
Accepts(address, message, signature) ==
    /\ WithinWindow(now, PassedTime(message))
    /\ Verify(message, address, signature)

StarArgs(address, message, signature, star) ==
    [address |-> address, message |-> message, signature |-> signature, star |-> star]

\* submitStar(address, message, signature, star), up to its return.
SubmitStar(address, message, signature, star) ==
    /\ CallRoom
    /\ IF Accepts(address, message, signature)
       THEN /\ BlockRoom
            /\ RehashRoom
            /\ LET ref == Len(blocks) + 1
                   r == addBlockBegin(Append(blocks, Block(StarData(address, star))),
                                      chain, ref, now)
               IN  /\ blocks' = r.blocks
                   /\ queue' = queue \o AddBlockTasks(ref, r)
                                     \o <<StarDeliverTask("resolved", ref,
                                                        StarArgs(address, message, signature, star))>>
       ELSE /\ queue' = Append(queue, StarDeliverTask("rejected", SubmissionFailed,
                                                      StarArgs(address, message, signature, star)))
            /\ UNCHANGED blocks
    /\ UNCHANGED <<chain, height, now, tampered>>

\* The genesis block is built whatever the height.
NeedsGenesis_Always(h) == TRUE
\* `this.height === -1`
NeedsGenesis(h) == h = -1

\* initializeChain(), called again by a caller.
InitializeChain ==
    /\ CallRoom
    /\ IF NeedsGenesis(height)
       THEN /\ BlockRoom
            /\ LET ref == Len(blocks) + 1
                   r == addBlockBegin(Append(blocks, Block(GenesisData)), chain, ref, now)
               IN  /\ blocks' = r.blocks
                   /\ queue' = queue \o AddBlockTasks(ref, r)
                                     \o <<DeliverTask("initializeChain", "resolved",
                                                      Undefined, Undefined)>>
       ELSE /\ queue' = Append(queue, DeliverTask("initializeChain", "resolved",
                                                  Undefined, Undefined))
            /\ UNCHANGED blocks
    /\ UNCHANGED <<chain, height, now, tampered>>

\* getChainHeight(): `return this.height`
getChainHeight == height

\* `return this.height++`
GetChainHeight_Incrementing ==
    /\ CallRoom
    /\ queue' = Append(queue, DeliverTask("getChainHeight", "resolved", getChainHeight, Undefined))
    /\ height' = height + 1
    /\ UNCHANGED <<blocks, chain, now, tampered>>

GetChainHeight ==
    /\ CallRoom
    /\ queue' = Append(queue, DeliverTask("getChainHeight", "resolved", getChainHeight, Undefined))
    /\ UNCHANGED <<blocks, chain, height, now, tampered>>

\* requestMessageOwnershipVerification(address)
RequestMessageOwnershipVerification(address) ==
    /\ CallRoom
    /\ queue' = Append(queue, DeliverTask("requestMessageOwnershipVerification",
                                          "resolved", Message(address, now), Undefined))
    /\ UNCHANGED <<blocks, chain, height, now, tampered>>

\* self.chain.filter((block) => block.hash === hash)
getBlockByHash(hash) == SelectSeq(chain, LAMBDA ref : blocks[ref].hash = hash)

GetBlockByHash(hash) ==
    /\ CallRoom
    /\ queue' = Append(queue, DeliverTask("getBlockByHash", "resolved",
                                          getBlockByHash(hash), Undefined))
    /\ UNCHANGED <<blocks, chain, height, now, tampered>>

\* self.chain.filter((p) => p.height === height)[0]; `block ? block : null`
getBlockByHeight(h) ==
    LET found == SelectSeq(chain, LAMBDA ref : blocks[ref].height = h)
    IN  IF Len(found) > 0 THEN found[1] ELSE NullRef

GetBlockByHeight(h) ==
    /\ CallRoom
    /\ queue' = Append(queue, DeliverTask("getBlockByHeight", "resolved",
                                          getBlockByHeight(h), h))
    /\ UNCHANGED <<blocks, chain, height, now, tampered>>

\* getStarsByWalletAddress(address), up to its return: each forEach callback
\* decodes its block and suspends at its await; `stars` is still empty.
GetStarsByWalletAddress(address) ==
    /\ CallRoom
    /\ queue' = queue
          \o [i \in 1..Len(chain) |-> GetBDataTask(getBData(blocks[chain[i]]), address)]
          \o <<DeliverTask("getStarsByWalletAddress", "resolved", <<>>, address)>>
    /\ UNCHANGED <<blocks, chain, height, now, tampered>>

\* validateChain(), called by a caller.
ValidateChain ==
    /\ CallRoom
    /\ RehashRoom
    /\ LET vc == validateChain(blocks, chain)
       IN  /\ blocks' = vc.blocks
           /\ queue' = Append(queue,
                              IF vc.threw
                              THEN DeliverTask("validateChain", "rejected", CouldNotValidate, Undefined)
                              ELSE DeliverTask("validateChain", "resolved", vc.errorLog, Undefined))
    /\ UNCHANGED <<chain, height, now, tampered>>

(* ----------------------------- microtasks ----------------------------- *)
\* The block is put in front.
Push_Front(ch, ref) == <<ref>> \o ch
\* `self.chain.push(block)`
Push(ch, ref) == Append(ch, ref)

\* _addBlock after its await: push and count, if validateChain found nothing.
ResumeAddBlock ==
    /\ queue # <<>>
    /\ Head(queue).kind = "addBlock"
    /\ IF NoErrors(Head(queue).errors)
       THEN /\ chain' = Push(chain, Head(queue).block)
            /\ height' = HeightAfterPush(height)
       ELSE UNCHANGED <<chain, height>>
    /\ queue' = Tail(queue)
    /\ UNCHANGED <<blocks, now, tampered>>

\* `data && data.owner === address`
OwnedBy(data, address) == OwnerField(data) = address

\* The position in q of the stars array the callback at the head pushes to:
\* the delivery task of its own getStarsByWalletAddress call.
StarsTaskOf(q) ==
    CHOOSE i \in 1..Len(q) :
        /\ q[i].kind = "deliver"
        /\ q[i].op = "getStarsByWalletAddress"
        /\ \A j \in 1..(i - 1) : q[j].kind = "getBData"

\* A forEach callback of getStarsByWalletAddress after its await.
ResumeGetBData ==
    /\ queue # <<>>
    /\ Head(queue).kind = "getBData"
    /\ LET task == Head(queue)
           rest == Tail(queue)
           k == StarsTaskOf(rest)
       IN  queue' = IF OwnedBy(task.data, task.address)
                    THEN [rest EXCEPT ![k].value = Append(@, task.data)]
                    ELSE rest
    /\ UNCHANGED <<blocks, chain, height, now, tampered>>

\* The caller's continuation runs with the settled promise.
Deliver ==
    /\ queue # <<>>
    /\ Head(queue).kind = "deliver"
    /\ queue' = Tail(queue)
    /\ UNCHANGED <<blocks, chain, height, now, tampered>>

(* ---------------------------- environment ----------------------------- *)
Tick ==
    /\ now + 1 \in Clocks
    /\ now' = now + 1
    /\ UNCHANGED <<blocks, chain, height, queue, tampered>>

\* Someone outside the class overwrites the body of the stored block at
\* (1-based) position i of the chain.
Tamper(i, body) ==
    /\ chain[i] \notin tampered
    /\ body # blocks[chain[i]].body
    /\ blocks' = [blocks EXCEPT ![chain[i]].body = body]
    /\ tampered' = tampered \cup {chain[i]}
    /\ UNCHANGED <<chain, height, queue, now>>

(* --------------------------- specifications --------------------------- *)
Signatures(message) == {Sign(signer, message) : signer \in Addresses}
\* The messages requestMessageOwnershipVerification(address) made at those times.
Messages(address) == {Message(address, t) : t \in MessageTimes}
HeightArgs == -1..MaxBlocks
HashArgs == {blocks[i].hash : i \in 1..Len(blocks)}
Bodies == {Encode(StarData(a, s)) : a \in Addresses, s \in Stars}

\* Calls may be made at any point between two microtasks.
Next ==
    \/ \E address \in Addresses, star \in Stars :
           \E message \in Messages(address) :
               \E signature \in Signatures(message) :
                   SubmitStar(address, message, signature, star)
    \/ InitializeChain
    \/ GetChainHeight
    \/ \E address \in Addresses : RequestMessageOwnershipVerification(address)
    \/ \E hash \in HashArgs : GetBlockByHash(hash)
    \/ \E h \in HeightArgs : GetBlockByHeight(h)
    \/ \E address \in Addresses : GetStarsByWalletAddress(address)
    \/ ValidateChain
    \/ ResumeAddBlock
    \/ ResumeGetBData
    \/ Deliver
    \/ Tick
Spec == Init /\ [][Next]_vars

\* Every operation runs to completion before the next one starts.
Idle == queue = <<>>
SeqNext ==
    \/ Idle /\ \E address \in Addresses, star \in Stars :
                  \E message \in Messages(address) :
                      \E signature \in Signatures(message) :
                          SubmitStar(address, message, signature, star)
    \/ Idle /\ InitializeChain
    \/ Idle /\ GetChainHeight
    \/ Idle /\ \E address \in Addresses : RequestMessageOwnershipVerification(address)
    \/ Idle /\ \E hash \in HashArgs : GetBlockByHash(hash)
    \/ Idle /\ \E h \in HeightArgs : GetBlockByHeight(h)
    \/ Idle /\ \E address \in Addresses : GetStarsByWalletAddress(address)
    \/ Idle /\ ValidateChain
    \/ ResumeAddBlock
    \/ ResumeGetBData
    \/ Deliver
    \/ Tick
SeqSpec == Init /\ [][SeqNext]_vars

\* One operation at a time, and stored bodies may be overwritten from outside.
TamperNext ==
    \/ SeqNext
    \/ Idle /\ \E i \in 1..Len(chain), body \in Bodies : Tamper(i, body)
TamperSpec == Init /\ [][TamperNext]_vars

(* ------------------------------- claims ------------------------------- *)
\* The block stored at (1-based) position i of the chain.
Stored(i) == blocks[chain[i]]

\* The promise of a call to `op` is being delivered to its caller: the
\* caller's continuation is the next microtask to run.
AtDelivery(op) ==
    /\ queue # <<>>
    /\ Head(queue).kind = "deliver"
    /\ Head(queue).op = op

\* This step is a call to `op`: it queues the delivery of the call's promise.
CallStep(op) ==
    /\ Len(queue') > Len(queue)
    /\ queue'[Len(queue')].kind = "deliver"
    /\ queue'[Len(queue')].op = op
Issued == queue'[Len(queue')]

\* The submitStar call of delivery task t passed both checks.
StarAccepted(t) == t.op = "submitStar" /\ t.status = "resolved"

\* C1: after construction and valid submissions run one at a time, with no
\* tampering, validateChain() resolves with an empty error log.
C1_ValidChainHasNoErrors ==
    AtDelivery("validateChain") =>
        /\ Head(queue).status = "resolved"
        /\ Head(queue).value = <<>>

\* C2: every chained block of height > 0 has previousBlockHash equal to the
\* stored hash of the block at height - 1 in the chain.
C2_PreviousHashLinks ==
    \A i \in 1..Len(chain) :
        Stored(i).height > 0 =>
            /\ Stored(i).height <= Len(chain)
            /\ Stored(i).previousBlockHash = Stored(Stored(i).height).hash

\* C3: when a submitStar call that passed the time-window and signature checks
\* is delivered, the chain is one block longer than at the call, the height
\* counter one higher, the returned block is the last of the chain, its height
\* is the chain length at the call and its body decodes to {owner, star}.
C3_SubmitStarAdmits ==
    AtDelivery("submitStar") /\ StarAccepted(Head(queue)) =>
        LET t == Head(queue) IN
        /\ Len(chain) = t.lenAtCall + 1
        /\ height = t.heightAtCall + 1
        /\ chain[Len(chain)] = t.value
        /\ blocks[t.value].height = t.lenAtCall
        /\ Decode(blocks[t.value].body) = [owner |-> t.arg.address, star |-> t.arg.star]

\* C4: a submitStar call made when currentTime - messageTime >= 300 seconds is
\* rejected with the generic error, whatever the signature, and the call leaves
\* the chain, the height counter and every block unchanged.
C4_ExpiredIsRejected ==
    [][(/\ CallStep("submitStar")
        /\ now - PassedTime(Issued.arg.message) >= 300)
       => /\ Issued.status = "rejected"
          /\ Issued.value = "There was an issue submitting your star."
          /\ Len(queue') = Len(queue) + 1
          /\ UNCHANGED <<blocks, chain, height>>]_vars

\* Reached: a message exactly five minutes old, carrying a signature that
\* verifies, was rejected.
C4_Witness ==
    \E i \in 1..Len(queue) :
        /\ queue[i].kind = "deliver"
        /\ queue[i].op = "submitStar"
        /\ queue[i].status = "rejected"
        /\ PassedTime(queue[i].arg.message) = StartTime - 300
        /\ queue[i].arg.signature = Sign(queue[i].arg.address, queue[i].arg.message)

\* C5: a submitStar call made inside the time window with a signature that does
\* not verify is rejected with the same generic error, and the call leaves the
\* chain, the height counter and every block unchanged.
C5_BadSignatureIsRejected ==
    [][(/\ CallStep("submitStar")
        /\ now - PassedTime(Issued.arg.message) < 300
        /\ Issued.arg.signature # Sign(Issued.arg.address, Issued.arg.message))
       => /\ Issued.status = "rejected"
          /\ Issued.value = "There was an issue submitting your star."
          /\ Len(queue') = Len(queue) + 1
          /\ UNCHANGED <<blocks, chain, height>>]_vars

\* Reached: a fresh message signed by another wallet was rejected.
C5_Witness ==
    \E i \in 1..Len(queue) :
        /\ queue[i].kind = "deliver"
        /\ queue[i].op = "submitStar"
        /\ queue[i].status = "rejected"
        /\ PassedTime(queue[i].arg.message) = StartTime
        /\ queue[i].arg.signature # Sign(queue[i].arg.address, queue[i].arg.message)

\* C6: after the body of the stored block at any index i was changed,
\* validateChain() resolves with an error log holding an entry for index i.
C6_TamperingIsReported ==
    AtDelivery("validateChain") =>
        \A i \in 1..Len(chain) :
            chain[i] \in tampered =>
                /\ Head(queue).status = "resolved"
                /\ \E k \in 1..Len(Head(queue).value) : Head(queue).value[k].index = i - 1

\* C7: with every operation run to completion before the next starts, the
\* block at index i of the chain has height i.
C7_HeightIsIndex ==
    \A i \in 1..Len(chain) : Stored(i).height = i - 1

\* Reached: a star block was admitted behind the genesis block, and a later
\* submission was made.
C7_Witness ==
    /\ Len(chain) = 2
    /\ Len(blocks) = 3
    /\ OwnerField(Decode(Stored(2).body)) \in Addresses

\* C8: under any interleaving, the height counter, which getChainHeight()
\* returns, is the number of blocks in the chain minus one.
C8_HeightCounter == getChainHeight = Len(chain) - 1

\* Reached: a submission made while the constructor's genesis admission was
\* still suspended was admitted too.
C8_Witness ==
    /\ Len(chain) = 2
    /\ Stored(2).height = 0
    /\ height = 1

\* The {owner, star} payloads of the chained blocks submitted for `address`,
\* in chain order.
RECURSIVE PayloadsOf(_, _)
PayloadsOf(ch, address) ==
    IF ch = <<>> THEN <<>>
    ELSE LET data == Decode(blocks[Head(ch)].body)
         IN  (IF OwnerField(data) = address THEN <<data>> ELSE <<>>)
             \o PayloadsOf(Tail(ch), address)

\* C9: when getStarsByWalletAddress(a) is delivered, its result is exactly the
\* payloads of the chained blocks submitted with owner a, in chain order.
C9_StarsOfOwner ==
    AtDelivery("getStarsByWalletAddress") =>
        Head(queue).value = PayloadsOf(chain, Head(queue).arg)

\* C10: getBlockByHeight(n) resolves with the block stored at index n when
\* 0 <= n <= chain height, with null otherwise, and leaves the chain unchanged.
C10_BlockByHeight ==
    [][CallStep("getBlockByHeight")
       => /\ Issued.status = "resolved"
          /\ Issued.value = IF 0 <= Issued.arg /\ Issued.arg <= height
                            THEN chain[Issued.arg + 1]
                            ELSE NullRef
          /\ UNCHANGED <<blocks, chain, height>>]_vars

\* The chained blocks that carry the genesis payload.
GenesisInChain == {i \in 1..Len(chain) : Decode(Stored(i).body) = GenesisData}

\* C11: once the height counter is >= 0, a call to initializeChain changes no
\* block, nor the chain, nor the counter; and with calls made only after
\* construction has completed, the chain holds exactly one genesis block.
C11_InitializeIdempotent ==
    [][/\ (CallStep("initializeChain") /\ height >= 0)
          => /\ UNCHANGED <<blocks, chain, height>>
             /\ Len(queue') = Len(queue) + 1
       /\ height' >= 0 => GenesisInChain' = {1}]_vars

\* Reached: initializeChain was called on a chain of two blocks and its
\* promise is being delivered.
C11_Witness ==
    /\ AtDelivery("initializeChain")
    /\ Len(chain) = 2
    /\ GenesisInChain = {1}

\* C12: every step keeps the chain as a prefix of the next chain, keeps the
\* body of every chained block, and never lowers the height counter.
C12_AppendOnly ==
    [][/\ Len(chain') >= Len(chain)
       /\ SubSeq(chain', 1, Len(chain)) = chain
       /\ \A i \in 1..Len(chain) : blocks'[chain[i]].body = blocks[chain[i]].body
       /\ height' >= height]_vars

\* Reached: two admissions ran interleaved, so both blocks took height 0, and
\* a later validateChain went over the chain of two.
C12_Witness ==
    /\ AtDelivery("validateChain")
    /\ Len(chain) = 2
    /\ Stored(2).height = 0
    /\ height = 1

\* C13: validate() of a chained block resolves true when the block was not
\* touched since its admission, and false when its body was rewritten.
C13_ValidateReportsIntact ==
    \A i \in 1..Len(chain) :
        validate(Stored(i)).resolves = (chain[i] \notin tampered)

\* The head of the queue is an admission about to resume.
AtResume == queue # <<>> /\ Head(queue).kind = "addBlock"

\* The admission task a call step put in the queue, if it did.
Admission == queue'[Len(queue') - 1]
StartsAdmission ==
    /\ Len(queue') = Len(queue) + 2
    /\ Admission.kind = "addBlock"

Logged(log, kind, index) ==
    \E k \in 1..Len(log) : log[k].kind = kind /\ log[k].index = index

\* C15: the log validateChain() resolves with has, for every block at an index
\* i > 0, an 'Invalid' entry iff validate() of that block yields false, and a
\* 'Hash Mismatch' entry iff its previousBlockHash differs from the hash of
\* the block before it.
C15_ContentAndLinkChecked ==
    [][(CallStep("validateChain") /\ Issued.status = "resolved")
       => \A i \in 2..Len(chain) :
             /\ Logged(Issued.value, "Invalid", i - 1)
                <=> ~validate(blocks[chain[i]]).resolves
             /\ Logged(Issued.value, "Hash Mismatch", i - 1)
                <=> blocks[chain[i]].previousBlockHash # blocks'[chain[i - 1]].hash]_vars

\* C16: a step never changes the hash, height, time or previousBlockHash of a
\* chained block, and getBlockByHash of a chained block's hash still finds
\* exactly that block after the step.
C16_AdmittedFieldsFrozen ==
    [][\A i \in 1..Len(chain) :
          /\ blocks'[chain[i]].hash = blocks[chain[i]].hash
          /\ blocks'[chain[i]].height = blocks[chain[i]].height
          /\ blocks'[chain[i]].time = blocks[chain[i]].time
          /\ blocks'[chain[i]].previousBlockHash = blocks[chain[i]].previousBlockHash
          /\ \E j \in 1..Len(chain') :
                /\ chain'[j] = chain[i]
                /\ blocks'[chain'[j]].hash = blocks[chain[i]].hash]_vars

\* C17: chained blocks have pairwise distinct heights, and exactly one of
\* them, the genesis block at index 0, has height 0.
C17_HeightsDistinct ==
    /\ \A i, j \in 1..Len(chain) : i # j => Stored(i).height # Stored(j).height
    /\ chain # <<>>
       => /\ {i \in 1..Len(chain) : Stored(i).height = 0} = {1}
          /\ Decode(Stored(1).body) = GenesisData

ReadOnlyOps ==
    {"requestMessageOwnershipVerification", "getChainHeight", "getBlockByHash",
     "getBlockByHeight", "getStarsByWalletAddress"}

\* A read-only operation is called, or one of its continuations runs.
ReadOnlyStep ==
    \/ \E op \in ReadOnlyOps : CallStep(op)
    \/ /\ queue # <<>>
       /\ Len(queue') = Len(queue) - 1
       /\ \/ Head(queue).kind = "getBData"
          \/ \E op \in ReadOnlyOps : AtDelivery(op)

\* C18: the calls of the read-only operations, and their continuations, leave
\* the chain, the height counter and every field of every block unchanged.
C18_ReadOnlyOps == [][ReadOnlyStep => UNCHANGED <<blocks, chain, height>>]_vars

\* Reached: getStarsByWalletAddress went over a chain of two blocks, one of
\* them a star block, and its promise is being delivered.
C18_Witness ==
    /\ AtDelivery("getStarsByWalletAddress")
    /\ Len(chain) = 2
    /\ OwnerField(Decode(Stored(2).body)) \in Addresses

====
